---------------------------- MODULE Spec2Model ----------------------------
(***************************************************************************)
(* Model of package diag (github.com/mutility/diag): the capability-       *)
(* fallback dispatch functions Debug .. WarningAtf, the value-masking      *)
(* registry (MaskValue, mask, masker.Args, masker.Format) and the location *)
(* formatter (FormatAtBracket, fillAt, fillAtf).                           *)
(*                                                                         *)
(* A Go string is modelled as a sequence of one-character strings, so that *)
(* replacing, escaping and formatting are computed and not assumed.  A Go  *)
(* interface{} argument is a record: StrV(s) for a string, IntV(n) for an  *)
(* int.                                                                    *)
(***************************************************************************)
EXTENDS Integers, Sequences, FiniteSets, TLC

VARIABLES
    caps,       \* caps[s]: the method set of sink s (its dynamic type)
    maskers,    \* var maskers map[interface{}]*masker
    registered, \* history: the values MaskValue was called with, per sink
    call,       \* the entry point the caller invoked last, with its arguments
    out,        \* what the sinks received during that call, in order
    panicked,   \* a nil dereference happened during that call
    thr         \* the goroutines of the concurrent view (pc and locals)

vars == <<caps, maskers, registered, call, out, panicked, thr>>

(***************************************************************************)
(* Values and strings                                                      *)
(***************************************************************************)
NIL == "nil"

StrV(s) == [t |-> "string", s |-> s, n |-> 0]
IntV(n) == [t |-> "int", s |-> <<>>, n |-> n]

\* s[i..] starts with p
HasPrefixAt(s, i, p) ==
    /\ i + Len(p) - 1 <= Len(s)
    /\ \A k \in 1..Len(p) : s[i + k - 1] = p[k]

Digit(d) == <<"0", "1", "2", "3", "4", "5", "6", "7", "8", "9">>[d + 1]

RECURSIVE ItoaNat(_)
ItoaNat(n) == IF n < 10 THEN <<Digit(n)>> ELSE ItoaNat(n \div 10) \o <<Digit(n % 10)>>

\* strconv.Itoa
Itoa(n) == IF n < 0 THEN <<"-">> \o ItoaNat(0 - n) ELSE ItoaNat(n)

\* strings.ReplaceAll(s, "%", "%%")
RECURSIVE EscapePercent(_)
EscapePercent(s) ==
    IF s = <<>> THEN <<>>
    ELSE (IF Head(s) = "%" THEN <<"%", "%">> ELSE <<Head(s)>>) \o EscapePercent(Tail(s))

(***************************************************************************)
(* strings.NewReplacer(oldnew...).Replace(s): the text is scanned left to  *)
(* right; at each position the first pair, in argument order, whose old    *)
(* string matches there is substituted and the scan resumes after the      *)
(* match.  The model registers non-empty values only.                      *)
(***************************************************************************)
PairsOf(oldnew) == Len(oldnew) \div 2

MatchAt(oldnew, s, i) ==
    { k \in 1..PairsOf(oldnew) : HasPrefixAt(s, i, oldnew[2 * k - 1]) }

\* the last of the matching pairs, in argument order
Min_Latest(S) == CHOOSE x \in S : \A y \in S : x >= y

Min(S) == CHOOSE x \in S : \A y \in S : x <= y

RECURSIVE ReplaceFrom(_, _, _)
ReplaceFrom(oldnew, s, i) ==
    IF i > Len(s) THEN <<>>
    ELSE LET ms == MatchAt(oldnew, s, i) IN
         IF ms = {} THEN <<s[i]>> \o ReplaceFrom(oldnew, s, i + 1)
         ELSE LET k == Min(ms) IN
              oldnew[2 * k] \o ReplaceFrom(oldnew, s, i + Len(oldnew[2 * k - 1]))

Replace(oldnew, s) == ReplaceFrom(oldnew, s, 1)

(***************************************************************************)
(* Package fmt, for the verbs and operand types the model feeds it:        *)
(* strings and small non-negative ints under %s %v %d %q %%, a verb the    *)
(* operand does not support (%!verb(type=value)), missing and extra        *)
(* operands, and a lone % at the end of the format.                        *)
(***************************************************************************)
TypeName(a) == IF a.t = "string" THEN <<"s", "t", "r", "i", "n", "g">> ELSE <<"i", "n", "t">>

\* strconv.Quote for text without control characters
RECURSIVE QuoteBody(_)
QuoteBody(s) ==
    IF s = <<>> THEN <<>>
    ELSE (IF Head(s) \in {"\"", "\\"} THEN <<"\\", Head(s)>> ELSE <<Head(s)>>)
         \o QuoteBody(Tail(s))

Quote(s) == <<"\"">> \o QuoteBody(s) \o <<"\"">>

\* strconv.QuoteRune of a control character below 7: '\x0n'
QuoteRune(n) == <<"'", "\\", "x", "0", Digit(n), "'">>

\* the default (%v) rendering of an operand
ValueText(a) == IF a.t = "string" THEN a.s ELSE Itoa(a.n)

BadVerb(verb, a) ==
    <<"%", "!", verb, "(">> \o TypeName(a) \o <<"=">> \o ValueText(a) \o <<")">>

\* (*pp).printArg
PrintArg(a, verb) ==
    IF a.t = "string"
    THEN CASE verb \in {"v", "s"} -> a.s
           [] verb = "q" -> Quote(a.s)
           [] OTHER -> BadVerb(verb, a)
    ELSE CASE verb \in {"v", "d"} -> Itoa(a.n)
           [] verb = "q" -> QuoteRune(a.n)
           [] OTHER -> BadVerb(verb, a)

\* the operands left over after the format: type=value, type=value
RECURSIVE ExtraList(_)
ExtraList(a) ==
    IF a = <<>> THEN <<>>
    ELSE TypeName(Head(a)) \o <<"=">> \o PrintArg(Head(a), "v")
         \o (IF Tail(a) = <<>> THEN <<>> ELSE <<",", " ">>)
         \o ExtraList(Tail(a))

Extra(a) == <<"%", "!", "(", "E", "X", "T", "R", "A", " ">> \o ExtraList(a) \o <<")">>

NoVerb == <<"%", "!", "(", "N", "O", "V", "E", "R", "B", ")">>

Missing(verb) == <<"%", "!", verb, "(", "M", "I", "S", "S", "I", "N", "G", ")">>

\* (*pp).doPrintf from position i of the format, with the operands a left
RECURSIVE DoPrintf(_, _, _)
DoPrintf(format, i, a) ==
    IF i > Len(format) THEN (IF a = <<>> THEN <<>> ELSE Extra(a))
    ELSE IF format[i] # "%" THEN <<format[i]>> \o DoPrintf(format, i + 1, a)
    ELSE IF i = Len(format) THEN NoVerb \o DoPrintf(format, i + 1, a)
    ELSE LET verb == format[i + 1] IN
         IF verb = "%" THEN <<"%">> \o DoPrintf(format, i + 2, a)
         ELSE IF a = <<>> THEN Missing(verb) \o DoPrintf(format, i + 2, a)
         ELSE PrintArg(Head(a), verb) \o DoPrintf(format, i + 2, Tail(a))

\* fmt.Sprintf
Sprintf(format, a) == DoPrintf(format, 1, a)

\* fmt.Sprint: a space between operands when neither is a string
RECURSIVE DoPrint(_, _)
DoPrint(a, k) ==
    IF k > Len(a) THEN <<>>
    ELSE (IF k > 1 /\ a[k].t # "string" /\ a[k - 1].t # "string" THEN <<" ">> ELSE <<>>)
         \o PrintArg(a[k], "v") \o DoPrint(a, k + 1)

Sprint(a) == DoPrint(a, 1)

\* fmt.Sprintln: a space between all operands, and a newline
RECURSIVE DoPrintln(_, _)
DoPrintln(a, k) ==
    IF k > Len(a) THEN <<"\n">>
    ELSE (IF k > 1 THEN <<" ">> ELSE <<>>) \o PrintArg(a[k], "v") \o DoPrintln(a, k + 1)

Sprintln(a) == DoPrintln(a, 1)

(***************************************************************************)
(* The location formatter                                                  *)
(***************************************************************************)
\* a formatter that emits the column whenever it is non-zero
FormatAtBracket_ColAlone(file, line, col) ==
    IF file = <<>> THEN <<>>
    ELSE <<"[">> \o file
         \o (IF line # 0 THEN <<":">> \o Itoa(line) ELSE <<>>)
         \o (IF col # 0 THEN <<".">> \o Itoa(col) ELSE <<>>)
         \o <<"]">>

FormatAtBracket(file, line, col) ==
    IF file = <<>> THEN <<>>
    ELSE <<"[">> \o file
         \o (IF line # 0
             THEN <<":">> \o Itoa(line)
                  \o (IF col # 0 THEN <<".">> \o Itoa(col) ELSE <<>>)
             ELSE <<>>)
         \o <<"]">>

\* var FormatAt = FormatAtBracket
FormatAt(file, line, col) == FormatAtBracket(file, line, col)

fillAt(file, line, col, a) ==
    LET loc == FormatAt(file, line, col) IN
    IF loc # <<>> THEN <<StrV(loc)>> \o a ELSE a

\* fillAtf without the escaping of the percent signs of the prefix
fillAtf_NoEscape(file, line, col, format) ==
    LET loc == FormatAt(file, line, col) IN
    IF loc = <<>> THEN format
    ELSE loc \o <<" ">> \o format

\* fillAtf that escapes the percent signs of the format as well
fillAtf_EscapeAll(file, line, col, format) ==
    LET loc == FormatAt(file, line, col) IN
    IF loc = <<>> THEN format
    ELSE EscapePercent(loc \o <<" ">> \o format)

fillAtf(file, line, col, format) ==
    LET loc == FormatAt(file, line, col) IN
    IF loc = <<>> THEN format
    ELSE EscapePercent(loc) \o <<" ">> \o format

(***************************************************************************)
(* The masking registry                                                    *)
(***************************************************************************)
Stars == <<"*", "*", "*">>

NoReplacer == [ok |-> FALSE, oldnew |-> <<>>]

\* strings.NewReplacer(oldnew...): the pairs are copied
NewReplacer(oldnew) == [ok |-> TRUE, oldnew |-> oldnew]

\* &masker{}
NewMasker == [masked |-> <<>>, repl |-> NoReplacer]

\* m := maskers[d]; m == nil || len(m.masked) == 0
NoMasker(mk, d) == d \notin DOMAIN mk \/ Len(mk[d].masked) = 0

\* mask(d), its effect on the registry: the replacer is compiled when missing
mask(mk, d) ==
    IF NoMasker(mk, d) THEN mk
    ELSE IF ~mk[d].repl.ok
         THEN [mk EXCEPT ![d].repl = NewReplacer(mk[d].masked)]
         ELSE mk

\* mask that returns some entry of the registry, not the one of d
maskPtr_AnySink(mk, d) ==
    IF DOMAIN mk = {} THEN NIL ELSE CHOOSE x \in DOMAIN mk : x # d \/ DOMAIN mk = {d}

\* mask(d), the *masker it returns: nil, or the entry of d
maskPtr(mk, d) == IF NoMasker(mk, d) THEN NIL ELSE d

\* Args that hands the caller's arguments on unreplaced
Args_NoReplace(mk, m, a) == a

\* (*masker).Args on the masker m of registry mk: a copy, strings replaced
Args(mk, m, a) ==
    IF m = NIL THEN a
    ELSE [i \in 1..Len(a) |->
            IF a[i].t = "string"
            THEN StrV(Replace(mk[m].repl.oldnew, a[i].s))
            ELSE a[i]]

\* (*masker).Format
Format(mk, m, format) ==
    IF m = NIL THEN format ELSE Replace(mk[m].repl.oldnew, format)

(***************************************************************************)
(* Sinks.  A sink is an identity; caps[s] is the set of methods its        *)
(* dynamic type has, which the type assertions d.(Debugfer) etc. query.    *)
(* The absent sink is the nil interface.                                   *)
(***************************************************************************)
Implements(d, method) == d # NIL /\ method \in caps[d]

Ev(d, method, file, line, col, format, a) ==
    [sink |-> d, method |-> method, file |-> file, line |-> line, col |-> col,
     format |-> format, args |-> a]

\* a call of a method of d that has no location and no format
Plain(d, method, a) == Ev(d, method, <<>>, 0, 0, <<>>, a)

\* thelper that finds no hook on any sink
thelper_Never(d) == <<>>

\* thelper(i) and the call of the hook it returns
thelper(d) == IF Implements(d, "Helper") THEN <<Plain(d, "Helper", <<>>)>> ELSE <<>>

\* the result of an entry point: the registry, the sink calls made, in order,
\* and whether a method was called through a nil interface
Result(mk, ev) == [mk |-> mk, ev |-> ev, panic |-> \E i \in 1..Len(ev) : ev[i].sink = NIL]

(***************************************************************************)
(* The dispatch entry points                                               *)
(***************************************************************************)
Debug(mk, d, a) ==
    IF d # NIL
    THEN LET mk2 == mask(mk, d)
             m == maskPtr(mk, d)
         IN Result(mk2, thelper(d) \o <<Plain(d, "Debug", Args(mk2, m, a))>>)
    ELSE Result(mk, <<>>)

\* Debugf that never looks for the sink's Debugf
Debugf_AlwaysPlain(mk, d, format, a) ==
    LET mk2 == mask(mk, d)
        m == maskPtr(mk, d)
    IN IF d # NIL
       THEN Result(mk2, thelper(d) \o
                <<Plain(d, "Debug", <<StrV(Sprintf(Format(mk2, m, format), Args(mk2, m, a)))>>)>>)
       ELSE Result(mk, thelper(d))

Debugf(mk, d, format, a) ==
    LET mk2 == mask(mk, d)
        m == maskPtr(mk, d)
    IN IF Implements(d, "Debugf")
       THEN Result(mk2, thelper(d) \o
                <<Ev(d, "Debugf", <<>>, 0, 0, Format(mk2, m, format), Args(mk2, m, a))>>)
       ELSE IF d # NIL
       THEN Result(mk2, thelper(d) \o
                <<Plain(d, "Debug", <<StrV(Sprintf(Format(mk2, m, format), Args(mk2, m, a)))>>)>>)
       ELSE Result(mk, thelper(d))

DiagPrint(mk, p, a) ==
    IF Implements(p, "Print")
    THEN LET mk2 == mask(mk, p)
             m == maskPtr(mk, p)
         IN Result(mk2, thelper(p) \o <<Plain(p, "Print", Args(mk2, m, a))>>)
    ELSE Result(mk, <<>>)

\* Printf that falls back to the sink's Debug
Printf_ViaDebug(mk, p, format, a) ==
    LET mk2 == mask(mk, p)
        m == maskPtr(mk, p)
    IN IF Implements(p, "Printf")
       THEN Result(mk2, thelper(p) \o
                <<Ev(p, "Printf", <<>>, 0, 0, Format(mk2, m, format), Args(mk2, m, a))>>)
       ELSE IF Implements(p, "Debug")
       THEN Result(mk2, thelper(p) \o
                <<Plain(p, "Debug", <<StrV(Sprintf(Format(mk2, m, format), Args(mk2, m, a)))>>)>>)
       ELSE Result(mk, thelper(p))

Printf(mk, p, format, a) ==
    LET mk2 == mask(mk, p)
        m == maskPtr(mk, p)
    IN IF Implements(p, "Printf")
       THEN Result(mk2, thelper(p) \o
                <<Ev(p, "Printf", <<>>, 0, 0, Format(mk2, m, format), Args(mk2, m, a))>>)
       ELSE IF Implements(p, "Print")
       THEN Result(mk2, thelper(p) \o
                <<Plain(p, "Print", <<StrV(Sprintf(Format(mk2, m, format), Args(mk2, m, a)))>>)>>)
       ELSE Result(mk, thelper(p))

\* Error that prefers the sink's ErrorAtf, with an empty location
Error_PreferAtf(mk, e, a) ==
    IF e # NIL
    THEN LET mk2 == mask(mk, e)
             m == maskPtr(mk, e)
         IN IF Implements(e, "ErrorAtf")
            THEN Result(mk2, thelper(e) \o
                     <<Ev(e, "ErrorAtf", <<>>, 0, 0, <<"%", "s">>,
                          <<StrV(Sprint(Args(mk2, m, a)))>>)>>)
            ELSE Result(mk2, thelper(e) \o <<Plain(e, "Error", Args(mk2, m, a))>>)
    ELSE Result(mk, <<>>)

Error(mk, e, a) ==
    IF e # NIL
    THEN LET mk2 == mask(mk, e)
             m == maskPtr(mk, e)
         IN Result(mk2, thelper(e) \o <<Plain(e, "Error", Args(mk2, m, a))>>)
    ELSE Result(mk, <<>>)

Errorf(mk, e, format, a) ==
    LET mk2 == mask(mk, e)
        m == maskPtr(mk, e)
    IN IF Implements(e, "Errorf")
       THEN Result(mk2, thelper(e) \o
                <<Ev(e, "Errorf", <<>>, 0, 0, Format(mk2, m, format), Args(mk2, m, a))>>)
       ELSE IF e # NIL
       THEN Result(mk2, thelper(e) \o
                <<Plain(e, "Error", <<StrV(Sprintf(Format(mk2, m, format), Args(mk2, m, a)))>>)>>)
       ELSE Result(mk, thelper(e))

\* ErrorAt that asks for ErrorAtf before ErrorAt
ErrorAt_AtfFirst(mk, e, file, line, col, a) ==
    LET mk2 == mask(mk, e)
        m == maskPtr(mk, e)
    IN IF Implements(e, "ErrorAtf")
       THEN Result(mk2, thelper(e) \o
                <<Ev(e, "ErrorAtf", file, line, col, <<"%", "s">>,
                     <<StrV(Sprint(Args(mk2, m, a)))>>)>>)
       ELSE IF Implements(e, "ErrorAt")
       THEN Result(mk2, thelper(e) \o
                <<Ev(e, "ErrorAt", file, line, col, <<>>, Args(mk2, m, a))>>)
       ELSE IF e # NIL
       THEN Result(mk2, thelper(e) \o
                <<Plain(e, "Error", fillAt(file, line, col, Args(mk2, m, a)))>>)
       ELSE Result(mk, thelper(e))

ErrorAt(mk, e, file, line, col, a) ==
    LET mk2 == mask(mk, e)
        m == maskPtr(mk, e)
    IN IF Implements(e, "ErrorAt")
       THEN Result(mk2, thelper(e) \o
                <<Ev(e, "ErrorAt", file, line, col, <<>>, Args(mk2, m, a))>>)
       ELSE IF Implements(e, "ErrorAtf")
       THEN Result(mk2, thelper(e) \o
                <<Ev(e, "ErrorAtf", file, line, col, <<"%", "s">>,
                     <<StrV(Sprint(Args(mk2, m, a)))>>)>>)
       ELSE IF e # NIL
       THEN Result(mk2, thelper(e) \o
                <<Plain(e, "Error", fillAt(file, line, col, Args(mk2, m, a)))>>)
       ELSE Result(mk, thelper(e))

\* ErrorAtf that masks the format after weaving the location into it
ErrorAtf_MaskWoven(mk, e, file, line, col, format, a) ==
    LET mk2 == mask(mk, e)
        m == maskPtr(mk, e)
    IN IF Implements(e, "ErrorAtf")
       THEN Result(mk2, thelper(e) \o
                <<Ev(e, "ErrorAtf", file, line, col, Format(mk2, m, format), Args(mk2, m, a))>>)
       ELSE IF Implements(e, "ErrorAt")
       THEN Result(mk2, thelper(e) \o
                <<Ev(e, "ErrorAt", file, line, col, <<>>,
                     <<StrV(Sprintf(Format(mk2, m, format), Args(mk2, m, a)))>>)>>)
       ELSE IF Implements(e, "Errorf")
       THEN Result(mk2, thelper(e) \o
                <<Ev(e, "Errorf", <<>>, 0, 0,
                     Format(mk2, m, fillAtf(file, line, col, format)), Args(mk2, m, a))>>)
       ELSE IF e # NIL
       THEN Result(mk2, thelper(e) \o
                <<Plain(e, "Error",
                     <<StrV(Sprintf(Format(mk2, m, fillAtf(file, line, col, format)),
                                    Args(mk2, m, a)))>>)>>)
       ELSE Result(mk, thelper(e))

ErrorAtf(mk, e, file, line, col, format, a) ==
    LET mk2 == mask(mk, e)
        m == maskPtr(mk, e)
    IN IF Implements(e, "ErrorAtf")
       THEN Result(mk2, thelper(e) \o
                <<Ev(e, "ErrorAtf", file, line, col, Format(mk2, m, format), Args(mk2, m, a))>>)
       ELSE IF Implements(e, "ErrorAt")
       THEN Result(mk2, thelper(e) \o
                <<Ev(e, "ErrorAt", file, line, col, <<>>,
                     <<StrV(Sprintf(Format(mk2, m, format), Args(mk2, m, a)))>>)>>)
       ELSE IF Implements(e, "Errorf")
       THEN Result(mk2, thelper(e) \o
                <<Ev(e, "Errorf", <<>>, 0, 0,
                     fillAtf(file, line, col, Format(mk2, m, format)), Args(mk2, m, a))>>)
       ELSE IF e # NIL
       THEN Result(mk2, thelper(e) \o
                <<Plain(e, "Error",
                     <<StrV(Sprintf(fillAtf(file, line, col, Format(mk2, m, format)),
                                    Args(mk2, m, a)))>>)>>)
       ELSE Result(mk, thelper(e))

\* Warning without the nil check
Warning_NoNilCheck(mk, w, a) ==
    LET mk2 == mask(mk, w)
        m == maskPtr(mk, w)
    IN Result(mk2, thelper(w) \o <<Plain(w, "Warning", Args(mk2, m, a))>>)

Warning(mk, w, a) ==
    IF w # NIL
    THEN LET mk2 == mask(mk, w)
             m == maskPtr(mk, w)
         IN Result(mk2, thelper(w) \o <<Plain(w, "Warning", Args(mk2, m, a))>>)
    ELSE Result(mk, <<>>)

Warningf(mk, w, format, a) ==
    LET mk2 == mask(mk, w)
        m == maskPtr(mk, w)
    IN IF Implements(w, "Warningf")
       THEN Result(mk2, thelper(w) \o
                <<Ev(w, "Warningf", <<>>, 0, 0, Format(mk2, m, format), Args(mk2, m, a))>>)
       ELSE IF w # NIL
       THEN Result(mk2, thelper(w) \o
                <<Plain(w, "Warning", <<StrV(Sprintf(Format(mk2, m, format), Args(mk2, m, a)))>>)>>)
       ELSE Result(mk, thelper(w))

\* WarningAt without the fallback to the sink's WarningAtf
WarningAt_NoAtf(mk, w, file, line, col, a) ==
    LET mk2 == mask(mk, w)
        m == maskPtr(mk, w)
    IN IF Implements(w, "WarningAt")
       THEN Result(mk2, thelper(w) \o
                <<Ev(w, "WarningAt", file, line, col, <<>>, Args(mk2, m, a))>>)
       ELSE IF w # NIL
       THEN Result(mk2, thelper(w) \o
                <<Plain(w, "Warning", fillAt(file, line, col, Args(mk2, m, a)))>>)
       ELSE Result(mk, thelper(w))

WarningAt(mk, w, file, line, col, a) ==
    LET mk2 == mask(mk, w)
        m == maskPtr(mk, w)
    IN IF Implements(w, "WarningAt")
       THEN Result(mk2, thelper(w) \o
                <<Ev(w, "WarningAt", file, line, col, <<>>, Args(mk2, m, a))>>)
       ELSE IF Implements(w, "WarningAtf")
       THEN Result(mk2, thelper(w) \o
                <<Ev(w, "WarningAtf", file, line, col, <<"%", "s">>,
                     <<StrV(Sprint(Args(mk2, m, a)))>>)>>)
       ELSE IF w # NIL
       THEN Result(mk2, thelper(w) \o
                <<Plain(w, "Warning", fillAt(file, line, col, Args(mk2, m, a)))>>)
       ELSE Result(mk, thelper(w))

\* WarningAtf that asks for Warningf before WarningAt
WarningAtf_FFirst(mk, w, file, line, col, format, a) ==
    LET mk2 == mask(mk, w)
        m == maskPtr(mk, w)
    IN IF Implements(w, "WarningAtf")
       THEN Result(mk2, thelper(w) \o
                <<Ev(w, "WarningAtf", file, line, col, Format(mk2, m, format), Args(mk2, m, a))>>)
       ELSE IF Implements(w, "Warningf")
       THEN Result(mk2, thelper(w) \o
                <<Ev(w, "Warningf", <<>>, 0, 0,
                     fillAtf(file, line, col, Format(mk2, m, format)), Args(mk2, m, a))>>)
       ELSE IF Implements(w, "WarningAt")
       THEN Result(mk2, thelper(w) \o
                <<Ev(w, "WarningAt", file, line, col, <<>>,
                     <<StrV(Sprintf(Format(mk2, m, format), Args(mk2, m, a)))>>)>>)
       ELSE IF w # NIL
       THEN Result(mk2, thelper(w) \o
                <<Plain(w, "Warning",
                     <<StrV(Sprintf(fillAtf(file, line, col, Format(mk2, m, format)),
                                    Args(mk2, m, a)))>>)>>)
       ELSE Result(mk, thelper(w))

WarningAtf(mk, w, file, line, col, format, a) ==
    LET mk2 == mask(mk, w)
        m == maskPtr(mk, w)
    IN IF Implements(w, "WarningAtf")
       THEN Result(mk2, thelper(w) \o
                <<Ev(w, "WarningAtf", file, line, col, Format(mk2, m, format), Args(mk2, m, a))>>)
       ELSE IF Implements(w, "WarningAt")
       THEN Result(mk2, thelper(w) \o
                <<Ev(w, "WarningAt", file, line, col, <<>>,
                     <<StrV(Sprintf(Format(mk2, m, format), Args(mk2, m, a)))>>)>>)
       ELSE IF Implements(w, "Warningf")
       THEN Result(mk2, thelper(w) \o
                <<Ev(w, "Warningf", <<>>, 0, 0,
                     fillAtf(file, line, col, Format(mk2, m, format)), Args(mk2, m, a))>>)
       ELSE IF w # NIL
       THEN Result(mk2, thelper(w) \o
                <<Plain(w, "Warning",
                     <<StrV(Sprintf(fillAtf(file, line, col, Format(mk2, m, format)),
                                    Args(mk2, m, a)))>>)>>)
       ELSE Result(mk, thelper(w))

\* MaskValue that leaves the compiled replacer in place
MaskValue_KeepRepl(mk, d, v) ==
    IF Implements(d, "MaskValue")
    THEN Result(mk, <<Plain(d, "MaskValue", <<StrV(v)>>)>>)
    ELSE IF d # NIL
    THEN LET mk1 == IF d \in DOMAIN mk THEN mk
                    ELSE [x \in DOMAIN mk \cup {d} |-> IF x = d THEN NewMasker ELSE mk[x]]
         IN Result([mk1 EXCEPT ![d].masked = @ \o <<v, Stars>>], <<>>)
    ELSE Result(mk, <<>>)

\* MaskValue that registers the value also for a sink with its own MaskValue
MaskValue_AlsoRegisters(mk, d, v) ==
    IF d # NIL
    THEN LET mk1 == IF d \in DOMAIN mk THEN mk
                    ELSE [x \in DOMAIN mk \cup {d} |-> IF x = d THEN NewMasker ELSE mk[x]]
         IN Result([mk1 EXCEPT ![d] = [masked |-> mk1[d].masked \o <<v, Stars>>,
                                       repl |-> NoReplacer]],
                   IF Implements(d, "MaskValue")
                   THEN <<Plain(d, "MaskValue", <<StrV(v)>>)>> ELSE <<>>)
    ELSE Result(mk, <<>>)

\* MaskValue(d, v)
MaskValue(mk, d, v) ==
    IF Implements(d, "MaskValue")
    THEN Result(mk, <<Plain(d, "MaskValue", <<StrV(v)>>)>>)
    ELSE IF d # NIL
    THEN LET mk1 == IF d \in DOMAIN mk THEN mk
                    ELSE [x \in DOMAIN mk \cup {d} |-> IF x = d THEN NewMasker ELSE mk[x]]
         IN Result([mk1 EXCEPT ![d] = [masked |-> mk1[d].masked \o <<v, Stars>>,
                                       repl |-> NoReplacer]], <<>>)
    ELSE Result(mk, <<>>)

\* the entry point op, called with the registry mk
Dispatch(mk, op, d, file, line, col, format, a) ==
    CASE op = "Debug" -> Debug(mk, d, a)
      [] op = "Debugf" -> Debugf(mk, d, format, a)
      [] op = "Print" -> DiagPrint(mk, d, a)
      [] op = "Printf" -> Printf(mk, d, format, a)
      [] op = "Error" -> Error(mk, d, a)
      [] op = "Errorf" -> Errorf(mk, d, format, a)
      [] op = "ErrorAt" -> ErrorAt(mk, d, file, line, col, a)
      [] op = "ErrorAtf" -> ErrorAtf(mk, d, file, line, col, format, a)
      [] op = "Warning" -> Warning(mk, d, a)
      [] op = "Warningf" -> Warningf(mk, d, format, a)
      [] op = "WarningAt" -> WarningAt(mk, d, file, line, col, a)
      [] op = "WarningAtf" -> WarningAtf(mk, d, file, line, col, format, a)

(***************************************************************************)
(* Groups.  Group hands its callback a *grouped wrapping the sink.  A      *)
(* *grouped has the 12 emission methods and nothing else (no Helper, no    *)
(* MaskValue, no Group), and a fresh wrapper has no registry entry, so an  *)
(* entry point called on it calls the wrapper's method of the same name    *)
(* with the caller's format and args.  A wrapper of depth k over sink d is *)
(* grouped{grouped{...{d}}} with k levels; depth 0 is d itself.            *)
(***************************************************************************)
\* append([]interface{}{" "}, a...)
groupedArgs(a) == <<StrV(<<" ">>)>> \o a

\* "  "+format
groupedFormat(format) == <<" ", " ">> \o format

FormatStyle == {"Debugf", "Printf", "Warningf", "Errorf", "WarningAtf", "ErrorAtf"}

\* thelper(g.d) of the wrapper of depth k over d, and the call of the hook
groupedHelper(d, k) == IF k = 1 THEN thelper(d) ELSE <<>>

\* grouped methods that reach the sink past the registry
RECURSIVE grouped_Unmasked(_, _, _, _, _, _, _, _, _)
grouped_Unmasked(mk, d, k, op, file, line, col, format, a) ==
    IF k = 0 THEN Dispatch(mk, op, d, file, line, col, format, a)
    ELSE LET inner == grouped_Unmasked(<<>>, d, k - 1, op, file, line, col,
                          IF op \in FormatStyle THEN groupedFormat(format) ELSE format,
                          IF op \in FormatStyle THEN a ELSE groupedArgs(a))
         IN Result(mk, groupedHelper(d, k) \o inner.ev)

\* entry point op called on the wrapper of depth k over d: (*grouped).op runs
\* the hook of g.d and calls entry point op on g.d with the indented input
RECURSIVE grouped(_, _, _, _, _, _, _, _, _)
grouped(mk, d, k, op, file, line, col, format, a) ==
    IF k = 0 THEN Dispatch(mk, op, d, file, line, col, format, a)
    ELSE LET inner == grouped(mk, d, k - 1, op, file, line, col,
                          IF op \in FormatStyle THEN groupedFormat(format) ELSE format,
                          IF op \in FormatStyle THEN a ELSE groupedArgs(a))
         IN Result(inner.mk, groupedHelper(d, k) \o inner.ev)

\* the callback's emission: entry point, location, format and args
NoBody == [op |-> "none", file |-> <<>>, line |-> 0, col |-> 0, format |-> <<>>, args |-> <<>>]

\* Group that runs the callback before it prints the title
RECURSIVE Group_BodyFirst(_, _, _, _, _, _)
Group_BodyFirst(mk, d, k, title, n, b) ==
    LET hook == IF k = 0 THEN thelper(d) ELSE <<>>
    IN IF k = 0 /\ Implements(d, "Group")
       THEN Result(mk, hook \o <<Plain(d, "Group", <<StrV(title)>>)>>)
       ELSE LET r == IF n = 1
                     THEN grouped(mk, d, k + 1, b.op, b.file, b.line, b.col, b.format, b.args)
                     ELSE Group_BodyFirst(mk, d, k + 1, title, n - 1, b)
                t == grouped(r.mk, d, k, "Printf", <<>>, 0, 0, <<"%", "s", ":">>, <<StrV(title)>>)
            IN Result(t.mk, hook \o r.ev \o t.ev)

\* Group(c, title, fn) with c the wrapper of depth k over d (d itself for
\* k = 0), where fn opens n - 1 further groups, each inside the one before
\* and with the same title, and makes the emission b in the innermost
RECURSIVE Group(_, _, _, _, _, _)
Group(mk, d, k, title, n, b) ==
    LET hook == IF k = 0 THEN thelper(d) ELSE <<>>
    IN IF k = 0 /\ Implements(d, "Group")
       THEN Result(mk, hook \o <<Plain(d, "Group", <<StrV(title)>>)>>)
       ELSE LET t == grouped(mk, d, k, "Printf", <<>>, 0, 0, <<"%", "s", ":">>, <<StrV(title)>>)
                r == IF n = 1
                     THEN grouped(t.mk, d, k + 1, b.op, b.file, b.line, b.col, b.format, b.args)
                     ELSE Group(t.mk, d, k + 1, title, n - 1, b)
            IN Result(r.mk, hook \o t.ev \o r.ev)

(***************************************************************************)
(* The callers.  The sinks are the test sinks of the repository: fill      *)
(* (plain methods only), hasf, hasat, hasatf, testDiag (plain and Helper), *)
(* and the other combinations of the optional methods.  A caller calls an  *)
(* entry point, which runs to completion, and then reads what the sink     *)
(* captured, as fill.debug() .. fill.error() do.                           *)
(***************************************************************************)
MaxMasks == 2

Sinks == {"s1", "s2"}

SinkArgs == Sinks \cup {NIL}

\* the sinks of the formatted and located calls: s2 has the plain methods
\* only and takes registrations and plain calls
RicherSinkArgs == {"s1", NIL}

PlainMethods == {"Debug", "Print", "Warning", "Error"}
FMethods == {"Debugf", "Printf", "Warningf", "Errorf"}
AtMethods == {"DebugAt", "PrintAt", "WarningAt", "ErrorAt"}
AtfMethods == {"DebugAtf", "PrintAtf", "WarningAtf", "ErrorAtf"}

SinkTypes ==
    { PlainMethods \cup f \cup at \cup atf :
        f \in {{}, FMethods}, at \in {{}, AtMethods}, atf \in {{}, AtfMethods} }
    \cup { PlainMethods \cup {"Warningf", "ErrorAt"},
           PlainMethods \cup {"WarningAtf", "Errorf", "ErrorAt"},
           PlainMethods \cup {"Helper"},
           PlainMethods \cup FMethods \cup {"Helper"},
           PlainMethods \cup {"MaskValue"},
           PlainMethods \cup {"Group"} }

Files == { <<>>, <<"a", "b", "%">> }
Lines == {0, 6}
Cols == {0, 3}

\* the locations of the located calls, as in the table of TestAt: no
\* location, no file, no line, no column, and all three
Locations ==
    { l \in Files \X Lines \X Cols :
        IF l[1] = <<>> THEN (l[2] = 0) <=> (l[3] = 0) ELSE l[2] # 0 \/ l[3] # 0 }

Formats ==
    { <<"%", "s", "%", "s", " ", "%", "q">>,
      <<"a", "b", "%", "d">> }

ArgLists ==
    { <<>>,
      <<StrV(<<"a", "b">>)>>,
      <<StrV(<<"a">>), StrV(<<"b">>), StrV(<<"a", "b">>)>>,
      <<IntV(2), IntV(3)>>,
      <<StrV(<<"a", "b">>), IntV(2)>> }

MaskVals == { <<"a", "b">>, <<"a">> }

\* the groups: the sinks they are opened on, the title, the nesting depth of
\* the callback's emission, and the emissions a callback makes
MaxDepth == 2

GroupSinks == {"s1", NIL}

Titles == { <<"a", "b", "a">> }

BodyFiles == { <<"a", "b", "%">> }
BodyFormats == { <<"a", "b", "%", "v">> }
BodyArgLists == { <<StrV(<<"a", "b">>)>> }

Bodies ==
    { [NoBody EXCEPT !.op = op, !.args = a] :
        op \in {"Debug", "Print", "Warning", "Error"}, a \in BodyArgLists }
    \cup { [NoBody EXCEPT !.op = op, !.format = f, !.args = a] :
        op \in {"Debugf", "Printf", "Warningf", "Errorf"}, f \in BodyFormats, a \in BodyArgLists }
    \cup { [NoBody EXCEPT !.op = op, !.file = file, !.line = 6, !.col = 3, !.args = a] :
        op \in {"WarningAt", "ErrorAt"}, file \in BodyFiles, a \in BodyArgLists }
    \cup { [NoBody EXCEPT !.op = op, !.file = file, !.line = 6, !.col = 3,
                          !.format = f, !.args = a] :
        op \in {"WarningAtf", "ErrorAtf"}, file \in BodyFiles,
        f \in BodyFormats, a \in BodyArgLists }

NoCall ==
    [op |-> "none", sink |-> NIL, file |-> <<>>, line |-> 0, col |-> 0,
     format |-> <<>>, args |-> <<>>, title |-> <<>>, depth |-> 0, body |-> "none"]

Idle == call.op = "none"

NoThreads == <<>>

Init ==
    /\ caps \in { [s \in Sinks |-> IF s = "s1" THEN ty ELSE PlainMethods] : ty \in SinkTypes }
    /\ maskers = <<>>
    /\ registered = [s \in Sinks |-> <<>>]
    /\ call = NoCall
    /\ out = <<>>
    /\ panicked = FALSE
    /\ thr = NoThreads

\* the caller's call of entry point op returned r
Returned(op, d, file, line, col, format, a, r) ==
    /\ maskers' = r.mk
    /\ out' = r.ev
    /\ panicked' = r.panic
    /\ call' = [NoCall EXCEPT !.op = op, !.sink = d, !.file = file, !.line = line,
                               !.col = col, !.format = format, !.args = a]
    /\ UNCHANGED <<caps, registered, thr>>

CallDebug ==
    /\ Idle
    /\ \E d \in SinkArgs, a \in ArgLists :
        Returned("Debug", d, <<>>, 0, 0, <<>>, a, Debug(maskers, d, a))

CallDebugf ==
    /\ Idle
    /\ \E d \in RicherSinkArgs, format \in Formats, a \in ArgLists :
        Returned("Debugf", d, <<>>, 0, 0, format, a, Debugf(maskers, d, format, a))

CallPrint ==
    /\ Idle
    /\ \E d \in SinkArgs, a \in ArgLists :
        Returned("Print", d, <<>>, 0, 0, <<>>, a, DiagPrint(maskers, d, a))

CallPrintf ==
    /\ Idle
    /\ \E d \in RicherSinkArgs, format \in Formats, a \in ArgLists :
        Returned("Printf", d, <<>>, 0, 0, format, a, Printf(maskers, d, format, a))

CallError ==
    /\ Idle
    /\ \E d \in SinkArgs, a \in ArgLists :
        Returned("Error", d, <<>>, 0, 0, <<>>, a, Error(maskers, d, a))

CallErrorf ==
    /\ Idle
    /\ \E d \in RicherSinkArgs, format \in Formats, a \in ArgLists :
        Returned("Errorf", d, <<>>, 0, 0, format, a, Errorf(maskers, d, format, a))

CallErrorAt ==
    /\ Idle
    /\ \E d \in RicherSinkArgs, l \in Locations, a \in ArgLists :
        Returned("ErrorAt", d, l[1], l[2], l[3], <<>>, a,
                 ErrorAt(maskers, d, l[1], l[2], l[3], a))

CallErrorAtf ==
    /\ Idle
    /\ \E d \in RicherSinkArgs, l \in Locations, format \in Formats, a \in ArgLists :
        Returned("ErrorAtf", d, l[1], l[2], l[3], format, a,
                 ErrorAtf(maskers, d, l[1], l[2], l[3], format, a))

CallWarning ==
    /\ Idle
    /\ \E d \in SinkArgs, a \in ArgLists :
        Returned("Warning", d, <<>>, 0, 0, <<>>, a, Warning(maskers, d, a))

CallWarningf ==
    /\ Idle
    /\ \E d \in RicherSinkArgs, format \in Formats, a \in ArgLists :
        Returned("Warningf", d, <<>>, 0, 0, format, a, Warningf(maskers, d, format, a))

CallWarningAt ==
    /\ Idle
    /\ \E d \in RicherSinkArgs, l \in Locations, a \in ArgLists :
        Returned("WarningAt", d, l[1], l[2], l[3], <<>>, a,
                 WarningAt(maskers, d, l[1], l[2], l[3], a))

CallWarningAtf ==
    /\ Idle
    /\ \E d \in RicherSinkArgs, l \in Locations, format \in Formats, a \in ArgLists :
        Returned("WarningAtf", d, l[1], l[2], l[3], format, a,
                 WarningAtf(maskers, d, l[1], l[2], l[3], format, a))

\* the number of MaskValue calls made so far
Registrations == Len(registered["s1"]) + Len(registered["s2"])

CallMaskValue ==
    /\ Idle
    /\ Registrations < MaxMasks
    /\ \E d \in SinkArgs, v \in MaskVals :
        LET r == MaskValue(maskers, d, v) IN
        /\ maskers' = r.mk
        /\ out' = r.ev
        /\ panicked' = r.panic
        /\ call' = [NoCall EXCEPT !.op = "MaskValue", !.sink = d, !.args = <<StrV(v)>>]
        /\ registered' = IF d = NIL THEN registered
                         ELSE [registered EXCEPT ![d] = @ \o <<v>>]
        /\ UNCHANGED <<caps, thr>>

\* Group(d, title, fn): the title, then the callback with its nested groups
CallGroup ==
    /\ Idle
    /\ \E d \in GroupSinks, title \in Titles, n \in 1..MaxDepth, b \in Bodies :
        LET r == Group(maskers, d, 0, title, n, b) IN
        /\ maskers' = r.mk
        /\ out' = r.ev
        /\ panicked' = r.panic
        /\ call' = [NoCall EXCEPT !.op = "Group", !.sink = d, !.title = title, !.depth = n,
                                  !.body = b.op, !.file = b.file, !.line = b.line,
                                  !.col = b.col, !.format = b.format, !.args = b.args]
        /\ UNCHANGED <<caps, registered, thr>>

\* fill.debug(), fill.print(), fill.warning(), fill.error(): read and clear
Observe ==
    /\ ~Idle
    /\ call' = NoCall
    /\ out' = <<>>
    /\ panicked' = FALSE
    /\ UNCHANGED <<caps, maskers, registered, thr>>

Next ==
    \/ CallDebug
    \/ CallDebugf
    \/ CallPrint
    \/ CallPrintf
    \/ CallError
    \/ CallErrorf
    \/ CallErrorAt
    \/ CallErrorAtf
    \/ CallWarning
    \/ CallWarningf
    \/ CallWarningAt
    \/ CallWarningAtf
    \/ CallMaskValue
    \/ CallGroup
    \/ Observe

Spec == Init /\ [][Next]_vars

(***************************************************************************)
(* The concurrent view.  Goroutines call MaskValue and Debug on the sinks  *)
(* at the same time.  The code takes no lock, so each read and each write  *)
(* of the map maskers and of the fields of a masker is a step of its own   *)
(* and the steps of the goroutines interleave.  A goroutine's m points to  *)
(* the masker the map holds for its sink ("entry") or, once another        *)
(* goroutine has stored a new masker over it, to the detached one          *)
(* ("orphan", kept in obj).                                                *)
(***************************************************************************)
Threads == {"t1", "t2"}

ConcArgs == { <<StrV(<<"a", "b">>)>>, <<IntV(2)>> }

IdleThread ==
    [pc |-> "idle", op |-> "none", d |-> NIL, v |-> <<>>, a |-> <<>>, m |-> "nil",
     obj |-> NewMasker, tmp |-> <<>>, seen |-> <<>>, res |-> <<>>]

InitConc ==
    /\ caps = [s \in Sinks |-> PlainMethods]
    /\ maskers = <<>>
    /\ registered = [s \in Sinks |-> <<>>]
    /\ call = NoCall
    /\ out = <<>>
    /\ panicked = FALSE
    /\ thr = [t \in Threads |-> IdleThread]

\* the masker goroutine t's m points to
Obj(t) == IF thr[t].m = "entry" THEN maskers[thr[t].d] ELSE thr[t].obj

\* goroutine t writes rec to the masker its m points to and goes on at pc
WriteObj(t, rec, pc) ==
    IF thr[t].m = "entry"
    THEN /\ maskers' = [maskers EXCEPT ![thr[t].d] = rec]
         /\ thr' = [thr EXCEPT ![t].pc = pc]
    ELSE /\ maskers' = maskers
         /\ thr' = [thr EXCEPT ![t].pc = pc, ![t].obj = rec]

\* MaskValue calls begun so far
Begun ==
    Registrations + Cardinality({t \in Threads : thr[t].op = "MaskValue" /\ thr[t].pc # "idle"})

\* the values of the MaskValue calls begun so far
BegunValues ==
    UNION { { registered[s][i] : i \in 1..Len(registered[s]) } : s \in Sinks } \cup
    { thr[t].v : t \in { u \in Threads : thr[u].op = "MaskValue" /\ thr[u].pc # "idle" } }

\* MaskValue, m := maskers[d].  The goroutines register different values.
MvLoad(t) ==
    /\ ~panicked
    /\ thr[t].pc = "idle"
    /\ Begun < MaxMasks
    /\ \E d \in Sinks, v \in MaskVals \ BegunValues :
        thr' = [thr EXCEPT ![t] =
                  [IdleThread EXCEPT !.op = "MaskValue", !.d = d, !.v = v,
                      !.m = IF d \in DOMAIN maskers THEN "entry" ELSE "nil",
                      !.pc = IF d \in DOMAIN maskers THEN "mv_read" ELSE "mv_create"]]
    /\ UNCHANGED <<caps, maskers, registered, call, out, panicked>>

\* MaskValue, m = &masker{}; maskers[d] = m
MvCreate(t) ==
    /\ ~panicked
    /\ thr[t].pc = "mv_create"
    /\ LET d == thr[t].d IN
       /\ maskers' = [x \in DOMAIN maskers \cup {d} |-> IF x = d THEN NewMasker ELSE maskers[x]]
       /\ thr' = [u \in Threads |->
                    IF u = t THEN [thr[t] EXCEPT !.m = "entry", !.pc = "mv_read"]
                    ELSE IF thr[u].m = "entry" /\ thr[u].d = d /\ d \in DOMAIN maskers
                    THEN [thr[u] EXCEPT !.m = "orphan", !.obj = maskers[d]]
                    ELSE thr[u]]
    /\ UNCHANGED <<caps, registered, call, out, panicked>>

\* MaskValue, append(m.masked, v, "***"): the read of m.masked
MvRead(t) ==
    /\ ~panicked
    /\ thr[t].pc = "mv_read"
    /\ thr' = [thr EXCEPT ![t].tmp = Obj(t).masked, ![t].pc = "mv_write"]
    /\ UNCHANGED <<caps, maskers, registered, call, out, panicked>>

\* MaskValue, m.masked = append(...): the write of m.masked
MvWrite(t) ==
    /\ ~panicked
    /\ thr[t].pc = "mv_write"
    /\ WriteObj(t, [Obj(t) EXCEPT !.masked = thr[t].tmp \o <<thr[t].v, Stars>>], "mv_clear")
    /\ UNCHANGED <<caps, registered, call, out, panicked>>

\* MaskValue, m.repl = nil, and the return
MvClear(t) ==
    /\ ~panicked
    /\ thr[t].pc = "mv_clear"
    /\ WriteObj(t, [Obj(t) EXCEPT !.repl = NoReplacer], "idle")
    /\ registered' = [registered EXCEPT ![thr[t].d] = @ \o <<thr[t].v>>]
    /\ UNCHANGED <<caps, call, out, panicked>>

\* Debug and mask, m := maskers[d]; m == nil || len(m.masked) == 0
MkLoad(t) ==
    /\ ~panicked
    /\ thr[t].pc = "idle"
    /\ \E d \in Sinks, a \in ConcArgs :
        thr' = [thr EXCEPT ![t] =
                  [IdleThread EXCEPT !.op = "Debug", !.d = d, !.a = a,
                      !.seen = registered[d],
                      !.m = IF NoMasker(maskers, d) THEN "nil" ELSE "entry",
                      !.pc = IF NoMasker(maskers, d) THEN "em_args" ELSE "mk_check"]]
    /\ UNCHANGED <<caps, maskers, registered, call, out, panicked>>

\* mask, if m.repl == nil
MkCheck(t) ==
    /\ ~panicked
    /\ thr[t].pc = "mk_check"
    /\ thr' = [thr EXCEPT ![t].pc = IF Obj(t).repl.ok THEN "em_args" ELSE "mk_read"]
    /\ UNCHANGED <<caps, maskers, registered, call, out, panicked>>

\* mask, strings.NewReplacer(m.masked...): the read of m.masked
MkRead(t) ==
    /\ ~panicked
    /\ thr[t].pc = "mk_read"
    /\ thr' = [thr EXCEPT ![t].tmp = Obj(t).masked, ![t].pc = "mk_write"]
    /\ UNCHANGED <<caps, maskers, registered, call, out, panicked>>

\* mask, m.repl = ...: the write of m.repl
MkWrite(t) ==
    /\ ~panicked
    /\ thr[t].pc = "mk_write"
    /\ WriteObj(t, [Obj(t) EXCEPT !.repl = NewReplacer(thr[t].tmp)], "em_args")
    /\ UNCHANGED <<caps, registered, call, out, panicked>>

\* (*masker).Args, repl := m.repl and the replacing, then d.Debug(...).
\* repl.Replace on a nil *strings.Replacer is a nil dereference.
EmArgs(t) ==
    /\ ~panicked
    /\ thr[t].pc = "em_args"
    /\ LET d == thr[t].d
           a == thr[t].a
           repl == Obj(t).repl
           res == IF thr[t].m = "nil" THEN a
                  ELSE [i \in 1..Len(a) |->
                          IF a[i].t = "string" THEN StrV(Replace(repl.oldnew, a[i].s))
                          ELSE a[i]]
       IN IF thr[t].m # "nil" /\ ~repl.ok /\ \E i \in 1..Len(a) : a[i].t = "string"
          THEN /\ panicked' = TRUE
               /\ thr' = [thr EXCEPT ![t].pc = "panic"]
               /\ UNCHANGED <<call, out>>
          ELSE /\ panicked' = FALSE
               /\ thr' = [thr EXCEPT ![t].pc = "idle", ![t].res = res]
               /\ out' = <<Plain(d, "Debug", res)>>
               /\ call' = [NoCall EXCEPT !.op = "Debug", !.sink = d, !.args = a]
    /\ UNCHANGED <<caps, maskers, registered>>

NextConc ==
    \E t \in Threads :
        \/ MvLoad(t)
        \/ MvCreate(t)
        \/ MvRead(t)
        \/ MvWrite(t)
        \/ MvClear(t)
        \/ MkLoad(t)
        \/ MkCheck(t)
        \/ MkRead(t)
        \/ MkWrite(t)
        \/ EmArgs(t)

SpecConc == InitConc /\ [][NextConc]_vars

(***************************************************************************)
(* Vocabulary of the properties                                            *)
(***************************************************************************)
DispatchOps ==
    {"Debug", "Debugf", "Print", "Printf", "Warning", "Warningf", "WarningAt",
     "WarningAtf", "Error", "Errorf", "ErrorAt", "ErrorAtf"}

\* the level of an entry point, which is also the name of its plain method
LevelOf(op) ==
    CASE op \in {"Debug", "Debugf"} -> "Debug"
      [] op \in {"Print", "Printf"} -> "Print"
      [] op \in {"Warning", "Warningf", "WarningAt", "WarningAtf"} -> "Warning"
      [] op \in {"Error", "Errorf", "ErrorAt", "ErrorAtf"} -> "Error"

ShapeOf(op) ==
    CASE op \in {"Debug", "Print", "Warning", "Error"} -> "plain"
      [] op \in {"Debugf", "Printf", "Warningf", "Errorf"} -> "f"
      [] op \in {"WarningAt", "ErrorAt"} -> "At"
      [] op \in {"WarningAtf", "ErrorAtf"} -> "Atf"

\* method names of a level
MethodF(level) ==
    CASE level = "Debug" -> "Debugf" [] level = "Print" -> "Printf"
      [] level = "Warning" -> "Warningf" [] level = "Error" -> "Errorf"
MethodAt(level) == IF level = "Warning" THEN "WarningAt" ELSE "ErrorAt"
MethodAtf(level) == IF level = "Warning" THEN "WarningAtf" ELSE "ErrorAtf"

\* a dispatch entry point was called with a sink that is not nil
Dispatched == call.op \in DispatchOps /\ call.sink # NIL

\* the emission methods the sink received during the call (the hook left out)
SinkCalls == SelectSeq(out, LAMBDA e : e.method # "Helper")

\* the old/new pairs of a list of registered values
RECURSIVE PairsFor(_)
PairsFor(vs) == IF vs = <<>> THEN <<>> ELSE <<Head(vs), Stars>> \o PairsFor(Tail(vs))

\* text as it must look after the replacer of sink d, by the values registered
SelfRedacting(d) == "MaskValue" \in caps[d]

XText(d, text) ==
    IF SelfRedacting(d) \/ registered[d] = <<>> THEN text
    ELSE Replace(PairsFor(registered[d]), text)

XArgs(d, a) ==
    [i \in 1..Len(a) |-> IF a[i].t = "string" THEN StrV(XText(d, a[i].s)) ELSE a[i]]

\* the call's arguments after masking, and its location prefix
CallArgs == XArgs(call.sink, call.args)
CallFormat == XText(call.sink, call.format)
CallPrefix == FormatAtBracket(call.file, call.line, call.col)

\* prefix, a space and text; text alone when the prefix is empty
WithPrefix(loc, text) == IF loc = <<>> THEN text ELSE loc \o <<" ">> \o text

RicherOf(d, level) == caps[d] \cap {MethodF(level), MethodAt(level), MethodAtf(level)}

(***************************************************************************)
(* C1: a sink with none of the formatted, located and located-formatted    *)
(* methods receives, from each of the 12 entry points, exactly one call,   *)
(* of the plain method of the call's level: the args for a plain call; the *)
(* rendered format for an ...f call; the args behind the location prefix   *)
(* (no extra argument for an empty prefix) for an ...At call; the prefix,  *)
(* a space and the rendered format (the rendered format alone for an empty *)
(* prefix) for an ...Atf call.  Format and args are as masking leaves      *)
(* them, which is unchanged when nothing is registered for the sink.       *)
(***************************************************************************)
C1_MinimalContract ==
    (Dispatched /\ caps[call.sink] \cap (FMethods \cup AtMethods \cup AtfMethods) = {}) =>
        LET shape == ShapeOf(call.op)
            rendered == Sprintf(CallFormat, CallArgs)
        IN /\ ~panicked
           /\ SinkCalls =
                <<Plain(call.sink, LevelOf(call.op),
                    CASE shape = "plain" -> CallArgs
                      [] shape = "f" -> <<StrV(rendered)>>
                      [] shape = "At" -> IF CallPrefix = <<>> THEN CallArgs
                                         ELSE <<StrV(CallPrefix)>> \o CallArgs
                      [] shape = "Atf" -> <<StrV(WithPrefix(CallPrefix, rendered))>>)>>

C1_Witness ==
    /\ call.op = "ErrorAtf"
    /\ call.sink # NIL
    /\ caps[call.sink] = PlainMethods
    /\ call.file = <<"a", "b", "%">>
    /\ call.line = 6
    /\ call.format = <<"a", "b", "%", "d">>
    /\ call.args = <<IntV(2), IntV(3)>>
    /\ Len(out) = 1
    /\ out[1].method = "Error"

(***************************************************************************)
(* C2: a call of any of the 12 entry points with the nil sink completes    *)
(* without a panic, calls no sink method and no hook, and leaves the mask  *)
(* registry as it was.                                                     *)
(***************************************************************************)
C2_NilSinkNoOp ==
    [][(call'.op \in DispatchOps /\ call'.sink = NIL) =>
          (out' = <<>> /\ ~panicked' /\ maskers' = maskers)]_vars

C2_Witness ==
    /\ call.op = "WarningAtf"
    /\ call.sink = NIL
    /\ call.args # <<>>
    /\ call.file # <<>>
    /\ DOMAIN maskers # {}
    /\ out = <<>>

(***************************************************************************)
(* C3: WarningAtf/ErrorAtf with a sink that is not nil call exactly one    *)
(* method, chosen Atf, else At, else f, else plain: Atf gets file, line,   *)
(* col, the masked format and the masked args; At gets file, line, col and *)
(* the format rendered to one string; f gets the masked format behind the  *)
(* escaped location prefix, with the masked args; plain gets that woven    *)
(* format rendered to one string.                                          *)
(***************************************************************************)
C3_AtfPriority ==
    (Dispatched /\ ShapeOf(call.op) = "Atf") =>
        LET d == call.sink
            level == LevelOf(call.op)
            woven == IF CallPrefix = <<>> THEN CallFormat
                     ELSE EscapePercent(CallPrefix) \o <<" ">> \o CallFormat
        IN SinkCalls =
            << IF MethodAtf(level) \in caps[d]
               THEN Ev(d, MethodAtf(level), call.file, call.line, call.col,
                       CallFormat, CallArgs)
               ELSE IF MethodAt(level) \in caps[d]
               THEN Ev(d, MethodAt(level), call.file, call.line, call.col, <<>>,
                       <<StrV(Sprintf(CallFormat, CallArgs))>>)
               ELSE IF MethodF(level) \in caps[d]
               THEN Ev(d, MethodF(level), <<>>, 0, 0, woven, CallArgs)
               ELSE Plain(d, level, <<StrV(Sprintf(woven, CallArgs))>>) >>

C3_Witness ==
    /\ call.op = "WarningAtf"
    /\ call.sink # NIL
    /\ {"Warningf", "WarningAt"} \subseteq caps[call.sink]
    /\ "WarningAtf" \notin caps[call.sink]
    /\ call.args # <<>>
    /\ Len(out) = 1
    /\ out[1].method = "WarningAt"

(***************************************************************************)
(* C4: WarningAt/ErrorAt with a sink that is not nil call exactly one      *)
(* method, chosen At, else Atf, else plain: At gets the masked args; Atf   *)
(* gets the format "%s" and the masked args joined into one string; plain  *)
(* gets the masked args behind the location prefix, or the masked args     *)
(* alone when the prefix is empty.  The formatted method is never chosen.  *)
(***************************************************************************)
C4_AtPriority ==
    (Dispatched /\ ShapeOf(call.op) = "At") =>
        LET d == call.sink
            level == LevelOf(call.op)
        IN /\ SinkCalls =
                << IF MethodAt(level) \in caps[d]
                   THEN Ev(d, MethodAt(level), call.file, call.line, call.col, <<>>, CallArgs)
                   ELSE IF MethodAtf(level) \in caps[d]
                   THEN Ev(d, MethodAtf(level), call.file, call.line, call.col,
                           <<"%", "s">>, <<StrV(Sprint(CallArgs))>>)
                   ELSE Plain(d, level,
                              IF CallPrefix = <<>> THEN CallArgs
                              ELSE <<StrV(CallPrefix)>> \o CallArgs) >>
           /\ \A i \in 1..Len(out) : out[i].method \notin FMethods

C4_Witness ==
    /\ call.op = "ErrorAt"
    /\ call.sink # NIL
    /\ {"Errorf", "ErrorAtf"} \subseteq caps[call.sink]
    /\ "ErrorAt" \notin caps[call.sink]
    /\ Len(call.args) > 1
    /\ Len(out) = 1
    /\ out[1].method = "ErrorAtf"
    /\ out[1].format = <<"%", "s">>

(***************************************************************************)
(* C5, as claimed: for a sink whose only richer error (warning) method is  *)
(* the located-formatted one, the base call Error(sink, args)              *)
(* (Warning(sink, args)) is routed to ...Atf with an empty file, line 0,   *)
(* column 0 and format "%s".                                               *)
(***************************************************************************)
C5_BaseCallUsesAtf ==
    (Dispatched /\ call.op \in {"Error", "Warning"}
       /\ RicherOf(call.sink, call.op) = {MethodAtf(call.op)}) =>
        /\ Len(SinkCalls) = 1
        /\ SinkCalls[1].method = MethodAtf(call.op)
        /\ SinkCalls[1].file = <<>>
        /\ SinkCalls[1].line = 0
        /\ SinkCalls[1].col = 0
        /\ SinkCalls[1].format = <<"%", "s">>

(***************************************************************************)
(* C5, amended: for a sink whose only richer error (warning) method is the *)
(* located-formatted one, that method serves the located call ErrorAt      *)
(* (WarningAt), with the caller's file, line and col, format "%s" and the  *)
(* joined masked args; the base call Error (Warning) goes to the plain     *)
(* method of the level with the masked args, never to ...Atf.              *)
(***************************************************************************)
C5_AtfOnlyForLocated ==
    (Dispatched /\ LevelOf(call.op) \in {"Error", "Warning"}
       /\ RicherOf(call.sink, LevelOf(call.op)) = {MethodAtf(LevelOf(call.op))}) =>
        LET d == call.sink
            level == LevelOf(call.op)
        IN /\ ShapeOf(call.op) = "At" =>
                SinkCalls = <<Ev(d, MethodAtf(level), call.file, call.line, call.col,
                                 <<"%", "s">>, <<StrV(Sprint(CallArgs))>>)>>
           /\ ShapeOf(call.op) = "plain" =>
                SinkCalls = <<Plain(d, level, CallArgs)>>

C5_Witness ==
    /\ call.op = "Error"
    /\ call.sink # NIL
    /\ RicherOf(call.sink, "Error") = {"ErrorAtf"}
    /\ call.args # <<>>
    /\ Len(out) = 1
    /\ out[1].method = "Error"

(***************************************************************************)
(* C6: Debugf/Printf/Warningf/Errorf with a sink that is not nil call the  *)
(* formatted method of the level, with the masked format and the masked    *)
(* args unrendered, when the sink has it; otherwise the plain method of    *)
(* the level, once, with the one string the masked format renders to with  *)
(* the masked args.  No located method is called.                          *)
(***************************************************************************)
C6_FormattedFallback ==
    (Dispatched /\ ShapeOf(call.op) = "f") =>
        LET d == call.sink
            level == LevelOf(call.op)
        IN /\ SinkCalls =
                << IF MethodF(level) \in caps[d]
                   THEN Ev(d, MethodF(level), <<>>, 0, 0, CallFormat, CallArgs)
                   ELSE Plain(d, level, <<StrV(Sprintf(CallFormat, CallArgs))>>) >>
           /\ \A i \in 1..Len(out) : out[i].method \notin AtMethods \cup AtfMethods

C6_Witness ==
    /\ call.op = "Debugf"
    /\ call.sink # NIL
    /\ "Debugf" \in caps[call.sink]
    /\ AtMethods \subseteq caps[call.sink]
    /\ call.args # <<>>
    /\ Len(out) = 1
    /\ out[1].method = "Debugf"
    /\ out[1].format = call.format
    /\ out[1].args = call.args

\* text contains v
Occurs(v, text) == \E i \in 1..Len(text) : HasPrefixAt(text, i, v)

(***************************************************************************)
(* C7: once a value is registered for a sink that does not redact by       *)
(* itself, every entry point, on every fallback path, masks first and      *)
(* routes second: the sink receives exactly what the same entry point      *)
(* hands a sink with an empty registry when called with the args whose     *)
(* string elements were replaced one by one (the other elements being      *)
(* unchanged) and with the replaced format.  So a value that only arises   *)
(* by joining or formatting is not masked: with "ab" registered, the args  *)
(* "a", "b", "ab" print as "a b ***" and format "%s%s %q" renders them to  *)
(* ab "***".                                                               *)
(***************************************************************************)
C7_MaskedBeforeSink ==
    (Dispatched /\ ~SelfRedacting(call.sink) /\ registered[call.sink] # <<>>) =>
        /\ out = Dispatch(<<>>, call.op, call.sink, call.file, call.line, call.col,
                          CallFormat, CallArgs).ev
        /\ (/\ registered[call.sink] = << <<"a", "b">> >>
            /\ call.args = <<StrV(<<"a">>), StrV(<<"b">>), StrV(<<"a", "b">>)>>
            /\ RicherOf(call.sink, LevelOf(call.op)) = {}
            /\ Len(SinkCalls) = 1)
           => /\ ShapeOf(call.op) = "plain" =>
                   Sprintln(SinkCalls[1].args) = <<"a", " ", "b", " ", "*", "*", "*", "\n">>
              /\ (ShapeOf(call.op) = "f" /\ call.format = <<"%", "s", "%", "s", " ", "%", "q">>) =>
                   Sprintln(SinkCalls[1].args) =
                       <<"a", "b", " ", "\"", "*", "*", "*", "\"", "\n">>

C7_Witness ==
    /\ call.op = "Warningf"
    /\ call.sink # NIL
    /\ caps[call.sink] = PlainMethods
    /\ registered[call.sink] = << <<"a", "b">> >>
    /\ call.format = <<"%", "s", "%", "s", " ", "%", "q">>
    /\ call.args = <<StrV(<<"a">>), StrV(<<"b">>), StrV(<<"a", "b">>)>>
    /\ Len(out) = 1
    /\ out[1].args = <<StrV(<<"a", "b", " ", "\"", "*", "*", "*", "\"">>)>>

(***************************************************************************)
(* C8: for a sink that does not redact by itself, the registry entry holds *)
(* every value registered so far, in order (none dropped or replaced); a   *)
(* compiled replacer is never stale with respect to the value list; a      *)
(* registration leaves the entry without a compiled replacer; and after an *)
(* emission on the sink the replacer is the one compiled from all values   *)
(* registered so far.                                                      *)
(***************************************************************************)
C8_ReplacerNeverStale ==
    /\ \A s \in Sinks : ~SelfRedacting(s) =>
          /\ (s \in DOMAIN maskers) <=> (registered[s] # <<>>)
          /\ s \in DOMAIN maskers =>
                /\ maskers[s].masked = PairsFor(registered[s])
                /\ maskers[s].repl.ok => maskers[s].repl.oldnew = maskers[s].masked
    /\ (call.op = "MaskValue" /\ call.sink # NIL /\ ~SelfRedacting(call.sink)) =>
          ~maskers[call.sink].repl.ok
    /\ (Dispatched /\ call.sink \in DOMAIN maskers) =>
          maskers[call.sink].repl = NewReplacer(PairsFor(registered[call.sink]))

C8_Witness ==
    /\ Dispatched
    /\ Len(registered[call.sink]) = 2
    /\ registered[call.sink][1] # registered[call.sink][2]
    /\ call.sink \in DOMAIN maskers
    /\ maskers[call.sink].repl.ok
    /\ Len(maskers[call.sink].repl.oldnew) = 4

(***************************************************************************)
(* C10: masking never alters the location.  A located or located-formatted *)
(* method receives file, line and col as the caller gave them, whatever    *)
(* they are.  On the formatted and plain fallbacks the prefix is the       *)
(* formatter's result for the caller's unmasked file name: it is the first *)
(* argument of an ...At call, and the text before the first space of an    *)
(* ...Atf call (its percent signs doubled while it is part of a format).   *)
(***************************************************************************)
C10_LocationUnmasked ==
    (Dispatched /\ ShapeOf(call.op) \in {"At", "Atf"}) =>
        /\ Len(SinkCalls) = 1
        /\ LET e == SinkCalls[1] IN
           /\ e.method \in AtMethods \cup AtfMethods =>
                 /\ e.file = call.file
                 /\ e.line = call.line
                 /\ e.col = call.col
           /\ (e.method \in FMethods /\ CallPrefix # <<>>) =>
                 HasPrefixAt(e.format, 1, EscapePercent(CallPrefix) \o <<" ">>)
           /\ (e.method \in PlainMethods /\ CallPrefix # <<>>) =>
                 /\ e.args # <<>>
                 /\ e.args[1].t = "string"
                 /\ IF ShapeOf(call.op) = "At"
                    THEN e.args[1].s = CallPrefix
                    ELSE HasPrefixAt(e.args[1].s, 1, CallPrefix \o <<" ">>)

C10_Witness ==
    /\ call.op = "ErrorAtf"
    /\ call.sink # NIL
    /\ <<"a", "b">> \in {registered[call.sink][i] : i \in 1..Len(registered[call.sink])}
    /\ call.file = <<"a", "b", "%">>
    /\ call.line = 6
    /\ Len(out) = 1
    /\ out[1].method = "Errorf"
    /\ HasPrefixAt(out[1].format, 1, <<"[", "a", "b", "%", "%", ":", "6", "]", " ">>)

\* no goroutine is inside MaskValue or an emission
AllIdle == \A t \in Threads : thr[t].pc = "idle"

\* the values of the old/new pairs of a masker
MaskedValues(m) == { m.masked[2 * k - 1] : k \in 1..PairsOf(m.masked) }

(***************************************************************************)
(* C9: with MaskValue calls and emissions running concurrently, no         *)
(* emission finds the replacer missing; no registration is lost (once all  *)
(* calls have returned, the entry of a sink holds one pair for each        *)
(* completed MaskValue, with its value); a cached replacer is never one    *)
(* compiled from an older list than the entry's; and an emission that      *)
(* began after MaskValue(sink, v) returned delivers no string argument     *)
(* that still contains v.                                                  *)
(***************************************************************************)
C9_RegistryMutualExclusion ==
    /\ ~panicked
    /\ AllIdle =>
         \A s \in Sinks :
            /\ registered[s] # <<>> =>
                 /\ s \in DOMAIN maskers
                 /\ PairsOf(maskers[s].masked) = Len(registered[s])
                 /\ \A i \in 1..Len(registered[s]) : registered[s][i] \in MaskedValues(maskers[s])
            /\ (s \in DOMAIN maskers /\ maskers[s].repl.ok) =>
                 maskers[s].repl.oldnew = maskers[s].masked
    /\ \A t \in Threads :
         (thr[t].pc = "idle" /\ thr[t].op = "Debug") =>
            \A i \in 1..Len(thr[t].res), k \in 1..Len(thr[t].seen) :
               thr[t].res[i].t = "string" => ~Occurs(thr[t].seen[k], thr[t].res[i].s)

\* inputs of the location formatter
LocFiles == { <<"f", "n", ".", "g", "o">>, <<"a", "b", "%">> }
LocLines == {-1, 0, 6, 10}
LocCols == {-1, 0, 3}

\* the formatter on its own, over LocFiles, LocLines and LocCols
FormatAtCases ==
    /\ \A line \in LocLines, col \in LocCols : FormatAt(<<>>, line, col) = <<>>
    /\ \A file \in LocFiles, line \in LocLines, col \in LocCols :
          FormatAt(file, line, col) =
              <<"[">> \o file
              \o (IF line # 0 THEN <<":">> \o Itoa(line) ELSE <<>>)
              \o (IF line # 0 /\ col # 0 THEN <<".">> \o Itoa(col) ELSE <<>>)
              \o <<"]">>
    /\ FormatAt(<<"f", "n", ".", "g", "o">>, 0, 3) = <<"[", "f", "n", ".", "g", "o", "]">>
    /\ FormatAt(<<"f", "n", ".", "g", "o">>, 10, 0) =
          <<"[", "f", "n", ".", "g", "o", ":", "1", "0", "]">>
    /\ FormatAt(<<"f", "n", ".", "g", "o">>, 10, 3) =
          <<"[", "f", "n", ".", "g", "o", ":", "1", "0", ".", "3", "]">>
    /\ FormatAt(<<>>, 10, 3) = <<>>

(***************************************************************************)
(* C11: the location formatter returns the empty string for an empty file, *)
(* whatever line and col are; otherwise "[file]", "[file:line]" or         *)
(* "[file:line.col]", with the line iff line is not 0 and the column iff   *)
(* line and col are both not 0.  So Format("fn.go", 0, 3) = "[fn.go]" and  *)
(* Format("", 10, 3) = "".  A located call that falls back to the plain    *)
(* method hands the sink that prefix as its first argument, and no extra   *)
(* argument when the prefix is empty.                                      *)
(***************************************************************************)
C11_FormatAt ==
    /\ FormatAtCases
    /\ (Dispatched /\ ShapeOf(call.op) = "At" /\ RicherOf(call.sink, LevelOf(call.op)) = {}) =>
          /\ Len(SinkCalls) = 1
          /\ SinkCalls[1].args =
                (IF call.file = <<>> THEN <<>>
                 ELSE <<StrV(<<"[">> \o call.file
                          \o (IF call.line = 6 THEN <<":", "6">> ELSE <<>>)
                          \o (IF call.line = 6 /\ call.col = 3 THEN <<".", "3">> ELSE <<>>)
                          \o <<"]">>)>>)
                \o CallArgs

C11_Witness ==
    /\ call.op = "WarningAt"
    /\ call.sink # NIL
    /\ caps[call.sink] = PlainMethods
    /\ call.file = <<"a", "b", "%">>
    /\ call.line = 0
    /\ call.col = 3
    /\ Len(out) = 1
    /\ out[1].method = "Warning"
    /\ out[1].args = <<StrV(<<"[", "a", "b", "%", "]">>)>> \o call.args

\* a group was opened on a sink that is not nil and has no Group of its own
Grouped == call.op = "Group" /\ call.sink # NIL /\ "Group" \notin caps[call.sink]

\* k spaces
RECURSIVE Spaces(_)
Spaces(k) == IF k = 0 THEN <<>> ELSE <<" ">> \o Spaces(k - 1)

\* the text of a formatted call (the format rendered with the args) and of a
\* plain call as the reference sinks join it, without the newline
TextOf(e) ==
    IF e.method \in FMethods \cup AtfMethods THEN Sprintf(e.format, e.args)
    ELSE SubSeq(Sprintln(e.args), 1, Len(Sprintln(e.args)) - 1)

\* the methods of a level
MethodsOf(level) == {level, MethodF(level)} \cup
    (IF level \in {"Warning", "Error"} THEN {MethodAt(level), MethodAtf(level)} ELSE {})

(***************************************************************************)
(* C12: Group on a sink without a Group method first emits the title and   *)
(* a colon as one print-level message on the sink itself (Printf if the    *)
(* sink has it, else Print), with the title masked by the sink's values,   *)
(* and only then runs the callback: the callback's emission comes after    *)
(* the title, once, and nothing else is emitted.  A group opened inside    *)
(* the callback does the same through the wrapper, one increment deeper.   *)
(***************************************************************************)
C12_GroupTitleFirst ==
    Grouped =>
        /\ ~panicked
        /\ Len(SinkCalls) = call.depth + 1
        /\ \A i \in 1..call.depth :
              /\ SinkCalls[i].sink = call.sink
              /\ SinkCalls[i].method =
                    (IF "Printf" \in caps[call.sink] THEN "Printf" ELSE "Print")
              /\ TextOf(SinkCalls[i]) =
                    Spaces(2 * (i - 1)) \o XText(call.sink, call.title) \o <<":">>
        /\ SinkCalls[call.depth + 1].sink = call.sink
        /\ SinkCalls[call.depth + 1].method \in MethodsOf(LevelOf(call.body))
        /\ SinkCalls[call.depth + 1] =
              SelectSeq(grouped(maskers, call.sink, call.depth, call.body, call.file, call.line,
                                call.col, call.format, call.args).ev,
                        LAMBDA e : e.method # "Helper")[1]

C12_Witness ==
    /\ Grouped
    /\ caps[call.sink] = PlainMethods
    /\ registered[call.sink] = << <<"a", "b">> >>
    /\ call.depth = 1
    /\ call.body = "Warning"
    /\ call.args = <<StrV(<<"a", "b">>)>>
    /\ out = << Plain(call.sink, "Print", <<StrV(<<"*", "*", "*", "a", ":">>)>>),
                Plain(call.sink, "Warning", <<StrV(<<" ">>), StrV(<<"*", "*", "*">>)>>) >>

\* the callback's emission as the sink received it, and the same emission
\* made on the sink directly
GroupedCall == SinkCalls[call.depth + 1]
DirectCall ==
    SelectSeq(Dispatch(maskers, call.body, call.sink, call.file, call.line, call.col,
                       call.format, call.args).ev,
              LAMBDA e : e.method # "Helper")[1]

(***************************************************************************)
(* C13: for every level, call shape and sink type, an emission made        *)
(* through the wrapper of a group reaches the same method of the sink,     *)
(* with the same location, as the emission made on the sink directly, and  *)
(* its text is the text of the direct emission behind two spaces for each  *)
(* level of nesting, and otherwise unchanged.                              *)
(***************************************************************************)
C13_GroupIndentsByOneIncrement ==
    Grouped =>
        /\ GroupedCall.method = DirectCall.method
        /\ GroupedCall.file = DirectCall.file
        /\ GroupedCall.line = DirectCall.line
        /\ GroupedCall.col = DirectCall.col
        /\ TextOf(GroupedCall) = Spaces(2 * call.depth) \o TextOf(DirectCall)

\* the replacer on its own, on the values and texts of TestExample and on
\* two values of which one is a prefix of the other
ReplaceCases ==
    LET ab == <<"a", "b">>
        abc == <<"a", "b", "c">>
        haha == <<"h", "a", "h", "a">>
    IN /\ Replace(PairsFor(<<ab, abc>>), abc) = <<"*", "*", "*", "c">>
       /\ Replace(PairsFor(<<abc, ab>>), abc) = <<"*", "*", "*">>
       /\ Replace(PairsFor(<<haha>>), <<"h", "a">>) = <<"h", "a">>
       /\ Replace(PairsFor(<<haha>>), haha \o <<"h", "a">>) = <<"*", "*", "*", "h", "a">>
       /\ Replace(PairsFor(<<haha>>), haha \o haha \o <<"h", "a">>) =
             <<"*", "*", "*", "*", "*", "*", "h", "a">>
       /\ Replace(PairsFor(<<ab>>), <<"a", "a", "b", "b", "a", "b", "a", "b">>) =
             <<"a", "*", "*", "*", "b", "*", "*", "*", "*", "*", "*">>

(***************************************************************************)
(* C14: replacement scans the text from left to right, replaces each match *)
(* of a registered value by "***" and resumes behind the match, so matches *)
(* do not overlap; of several values that match at one position the one    *)
(* registered first is taken.  So the order of registration decides for    *)
(* overlapping values: with "a" registered before "ab" the argument "ab"   *)
(* reaches the sink as "***b", with "ab" registered before "a" as "***"    *)
(* ("ab" then "abc" turns "abc" into "***c", the reverse order into        *)
(* "***").  With "haha" registered, "ha" is unchanged, "hahaha" becomes    *)
(* "***ha" and "hahahahaha" becomes "******ha".                            *)
(***************************************************************************)
C14_ReplacementOrder ==
    /\ ReplaceCases
    /\ (/\ Dispatched
        /\ ShapeOf(call.op) = "plain"
        /\ ~SelfRedacting(call.sink)
        /\ call.args = <<StrV(<<"a", "b">>)>>)
       => /\ Len(SinkCalls) = 1
          /\ LET r == registered[call.sink] IN
             SinkCalls[1].args =
                <<StrV(CASE r = <<>> -> <<"a", "b">>
                         [] r # <<>> /\ r[1] = <<"a">> -> <<"*", "*", "*", "b">>
                         [] r # <<>> /\ r[1] = <<"a", "b">> -> <<"*", "*", "*">>)>>

C14_Witness ==
    /\ Dispatched
    /\ call.op = "Print"
    /\ registered[call.sink] = << <<"a">>, <<"a", "b">> >>
    /\ ~SelfRedacting(call.sink)
    /\ call.args = <<StrV(<<"a", "b">>)>>
    /\ Len(out) = 1
    /\ out[1].args = <<StrV(<<"*", "*", "*", "b">>)>>

(***************************************************************************)
(* C15: MaskValue on a sink that has its own MaskValue calls that method   *)
(* once, with the value, and leaves the registry as it was; such a sink    *)
(* never has a registry entry, whatever was called before; and every entry *)
(* point hands its methods the caller's format and args without replacing  *)
(* anything in them.                                                       *)
(***************************************************************************)
C15_SelfRedactingDelegates ==
    [][/\ \A s \in Sinks : SelfRedacting(s) => s \notin DOMAIN maskers'
       /\ (call'.op = "MaskValue" /\ call'.sink # NIL /\ SelfRedacting(call'.sink)) =>
             /\ out' = <<Plain(call'.sink, "MaskValue", call'.args)>>
             /\ maskers' = maskers
       /\ (call'.op \in DispatchOps /\ call'.sink # NIL /\ SelfRedacting(call'.sink)) =>
             /\ out' = Dispatch(<<>>, call'.op, call'.sink, call'.file, call'.line, call'.col,
                                call'.format, call'.args).ev
             /\ ShapeOf(call'.op) = "plain" => out'[1].args = call'.args
             /\ maskers' = maskers]_vars

C15_Witness ==
    /\ call.op = "MaskValue"
    /\ call.sink # NIL
    /\ SelfRedacting(call.sink)
    /\ out = <<Plain(call.sink, "MaskValue", <<StrV(<<"a", "b">>)>>)>>
    /\ DOMAIN maskers = {"s2"}
    /\ registered[call.sink] = << <<"a", "b">> >>

(***************************************************************************)
(* C16: for a sink for which no value was registered, whatever was         *)
(* registered for the other sinks, every entry point hands the sink the    *)
(* caller's format and args as they are: a plain call delivers the args    *)
(* unchanged, a formatted call on a sink with the formatted method         *)
(* delivers format and args unchanged, and on each fallback path the sink  *)
(* receives what it receives with an empty registry.  The same holds for   *)
(* the title and the emission of a group.                                  *)
(***************************************************************************)
C16_NoRegistrationNoMasking ==
    /\ (Dispatched /\ registered[call.sink] = <<>>) =>
          /\ call.sink \notin DOMAIN maskers
          /\ out = Dispatch(<<>>, call.op, call.sink, call.file, call.line, call.col,
                            call.format, call.args).ev
          /\ Len(SinkCalls) = 1
          /\ ShapeOf(call.op) = "plain" => SinkCalls[1].args = call.args
          /\ (/\ SinkCalls[1].method \in FMethods \cup AtfMethods
              /\ ShapeOf(call.op) \in {"f", "Atf"}
              /\ CallPrefix = <<>>)
             => /\ SinkCalls[1].format = call.format
                /\ SinkCalls[1].args = call.args
    /\ (Grouped /\ registered[call.sink] = <<>>) =>
          out = Group(<<>>, call.sink, 0, call.title, call.depth,
                      [op |-> call.body, file |-> call.file, line |-> call.line,
                       col |-> call.col, format |-> call.format, args |-> call.args]).ev

C16_Witness ==
    /\ Dispatched
    /\ call.op = "Warning"
    /\ call.sink = "s1"
    /\ ~SelfRedacting("s1")
    /\ registered["s1"] = <<>>
    /\ registered["s2"] = << <<"a", "b">> >>
    /\ "s2" \in DOMAIN maskers
    /\ maskers["s2"].repl.ok
    /\ call.args = <<StrV(<<"a", "b">>)>>
    /\ Len(out) = 1
    /\ out[1].args = call.args

(***************************************************************************)
(* C17: when WarningAt or ErrorAt falls back to the located-formatted      *)
(* method, the sink receives the format "%s" and one string, and that      *)
(* string is the text the plain path gives for the same args on a sink     *)
(* that joins its arguments with a space between every two of them (the    *)
(* line fmt.Sprintln makes of them, without the newline).                  *)
(***************************************************************************)
C17_JoinConsistentAcrossFallbacks ==
    (Dispatched /\ ShapeOf(call.op) = "At" /\ Len(SinkCalls) = 1
        /\ SinkCalls[1].method \in AtfMethods) =>
        /\ SinkCalls[1].format = <<"%", "s">>
        /\ Len(SinkCalls[1].args) = 1
        /\ SinkCalls[1].args[1].t = "string"
        /\ SinkCalls[1].args[1].s \o <<"\n">> = Sprintln(CallArgs)

(***************************************************************************)
(* C18: when WarningAtf or ErrorAtf falls back to the formatted or to the  *)
(* plain method, the percent signs of the location prefix are doubled      *)
(* before the prefix is put in front of the format.  For every file name,  *)
(* one with a percent sign included, rendering the format the sink is      *)
(* given with the args gives the prefix, a space and the rendering of the  *)
(* masked format with the same args: the prefix shows literally and each   *)
(* placeholder keeps its operand.  With an empty prefix the format is      *)
(* handed on as it is, with no space in front.                             *)
(***************************************************************************)
C18_PrefixPercentEscaped ==
    (Dispatched /\ ShapeOf(call.op) = "Atf" /\ Len(SinkCalls) = 1
        /\ SinkCalls[1].method \in FMethods \cup PlainMethods) =>
        LET e == SinkCalls[1]
            rendered == Sprintf(CallFormat, CallArgs)
        IN /\ e.method \in FMethods =>
                /\ e.args = CallArgs
                /\ Sprintf(e.format, e.args) = WithPrefix(CallPrefix, rendered)
                /\ CallPrefix = <<>> => e.format = CallFormat
                /\ CallPrefix # <<>> =>
                      /\ Len(e.format) >= Len(CallPrefix) + 1 + Len(CallFormat)
                      /\ SubSeq(e.format, Len(e.format) - Len(CallFormat), Len(e.format)) =
                            <<" ">> \o CallFormat
           /\ e.method \in PlainMethods =>
                e.args = <<StrV(WithPrefix(CallPrefix, rendered))>>

C18_Witness ==
    /\ call.op = "WarningAtf"
    /\ call.sink # NIL
    /\ caps[call.sink] = PlainMethods \cup FMethods
    /\ call.file = <<"a", "b", "%">>
    /\ call.line = 6
    /\ call.col = 3
    /\ call.format = <<"a", "b", "%", "d">>
    /\ call.args = <<IntV(2), IntV(3)>>
    /\ registered[call.sink] = <<>>
    /\ Len(out) = 1
    /\ out[1].method = "Warningf"
    /\ out[1].format =
          <<"[", "a", "b", "%", "%", ":", "6", ".", "3", "]", " ", "a", "b", "%", "d">>
    /\ Sprintf(out[1].format, out[1].args) =
          <<"[", "a", "b", "%", ":", "6", ".", "3", "]", " ", "a", "b", "2">>
          \o <<"%", "!", "(", "E", "X", "T", "R", "A", " ", "i", "n", "t", "=", "3", ")">>

\* the method an entry point chooses on sink d, by the methods d has
Chosen(d, op) ==
    LET level == LevelOf(op)
        shape == ShapeOf(op)
        has(meth) == meth \in caps[d]
    IN CASE shape = "plain" -> level
         [] shape = "f" -> IF has(MethodF(level)) THEN MethodF(level) ELSE level
         [] shape = "At" -> IF has(MethodAt(level)) THEN MethodAt(level)
                            ELSE IF has(MethodAtf(level)) THEN MethodAtf(level)
                            ELSE level
         [] shape = "Atf" -> IF has(MethodAtf(level)) THEN MethodAtf(level)
                             ELSE IF has(MethodAt(level)) THEN MethodAt(level)
                             ELSE IF has(MethodF(level)) THEN MethodF(level)
                             ELSE level

(***************************************************************************)
(* C19: a sink with the Helper hook has the hook called right before each  *)
(* of its methods that an entry point or Group calls; a sink without the   *)
(* hook gets no hook call, and nothing at all is called on the nil sink.   *)
(* The hook changes nothing else: the method is the one the sink's other   *)
(* methods select, and plain and formatted calls deliver the same args and *)
(* format as without it.                                                   *)
(***************************************************************************)
C19_HelperBeforeSinkMethod ==
    /\ \A i \in 1..Len(out) : out[i].sink # NIL
    /\ (call.op \in DispatchOps \cup {"Group"} /\ call.sink = NIL) => out = <<>>
    /\ (call.op \in DispatchOps \cup {"Group"} /\ call.sink # NIL) =>
          IF "Helper" \in caps[call.sink]
          THEN \A i \in 1..Len(out) :
                  out[i].method # "Helper" =>
                      /\ i > 1
                      /\ out[i - 1].method = "Helper"
                      /\ out[i - 1].sink = out[i].sink
          ELSE SinkCalls = out
    /\ Dispatched =>
          /\ Len(SinkCalls) = 1
          /\ SinkCalls[1].method = Chosen(call.sink, call.op)
          /\ ShapeOf(call.op) = "plain" => SinkCalls[1].args = CallArgs
          /\ (ShapeOf(call.op) = "f" /\ SinkCalls[1].method \in FMethods) =>
                /\ SinkCalls[1].format = CallFormat
                /\ SinkCalls[1].args = CallArgs

C19_Witness ==
    /\ call.op = "Warningf"
    /\ call.sink # NIL
    /\ caps[call.sink] = PlainMethods \cup FMethods \cup {"Helper"}
    /\ call.args = <<StrV(<<"a", "b">>), IntV(2)>>
    /\ out = << Plain(call.sink, "Helper", <<>>),
                Ev(call.sink, "Warningf", <<>>, 0, 0, call.format, call.args) >>

(***************************************************************************)
(* C20: a value registered for a sink is masked in the title of a group on *)
(* that sink and in every emission made through the group's wrappers, at   *)
(* every depth, and it is masked once: the sink receives what it receives  *)
(* with an empty registry when title, format and string args are replaced  *)
(* beforehand.  With "ab" registered, the title "aba" is emitted as        *)
(* "***a:", and at depth 1 Warning(child, "ab") as "  ***".                *)
(***************************************************************************)
C20_MaskedThroughGroup ==
    (Grouped /\ ~SelfRedacting(call.sink) /\ registered[call.sink] # <<>>) =>
        /\ out = Group(<<>>, call.sink, 0, XText(call.sink, call.title), call.depth,
                       [op |-> call.body, file |-> call.file, line |-> call.line,
                        col |-> call.col, format |-> CallFormat, args |-> CallArgs]).ev
        /\ DOMAIN maskers \subseteq Sinks
        /\ registered[call.sink] = << <<"a", "b">> >> =>
              /\ TextOf(SinkCalls[1]) = <<"*", "*", "*", "a", ":">>
              /\ (/\ call.body = "Warning"
                  /\ call.depth = 1
                  /\ call.args = <<StrV(<<"a", "b">>)>>)
                 => Sprintln(SinkCalls[2].args) = <<" ", " ", "*", "*", "*", "\n">>

C20_Witness ==
    /\ Grouped
    /\ caps[call.sink] = PlainMethods
    /\ registered[call.sink] = << <<"a", "b">> >>
    /\ call.depth = 2
    /\ call.body = "Warning"
    /\ call.args = <<StrV(<<"a", "b">>)>>
    /\ out = << Plain(call.sink, "Print", <<StrV(<<"*", "*", "*", "a", ":">>)>>),
                Plain(call.sink, "Print", <<StrV(<<" ", " ", "*", "*", "*", "a", ":">>)>>),
                Plain(call.sink, "Warning",
                      <<StrV(<<" ">>), StrV(<<" ">>), StrV(<<"*", "*", "*">>)>>) >>

(***************************************************************************)
(* C21: an entry point called with a sink that is not nil calls exactly    *)
(* one emission method, on that sink, and the method is one of the level   *)
(* of the entry point: a Warning... call reaches Warning, Warningf,        *)
(* WarningAt or WarningAtf and no method of another level, and likewise    *)
(* for the other levels.  DebugAt, PrintAt, DebugAtf and PrintAtf are      *)
(* never called, whether the sink has them or not.                         *)
(***************************************************************************)
C21_OneMethodOfOwnLevel ==
    Dispatched =>
        /\ ~panicked
        /\ Len(SinkCalls) = 1
        /\ SinkCalls[1].sink = call.sink
        /\ SinkCalls[1].method \in MethodsOf(LevelOf(call.op))
        /\ SinkCalls[1].method \in caps[call.sink]
        /\ SinkCalls[1].method \notin {"DebugAt", "PrintAt", "DebugAtf", "PrintAtf"}

C21_Witness ==
    /\ call.op = "WarningAt"
    /\ call.sink # NIL
    /\ caps[call.sink] = PlainMethods \cup {"Warningf", "ErrorAt"}
    /\ call.file = <<"a", "b", "%">>
    /\ Len(out) = 1
    /\ out[1].method = "Warning"

\* the entry point of the other of the levels Warning and Error, and the
\* method of the other level
Twin(name) ==
    CASE name = "Warning" -> "Error" [] name = "Warningf" -> "Errorf"
      [] name = "WarningAt" -> "ErrorAt" [] name = "WarningAtf" -> "ErrorAtf"
      [] name = "Error" -> "Warning" [] name = "Errorf" -> "Warningf"
      [] name = "ErrorAt" -> "WarningAt" [] name = "ErrorAtf" -> "WarningAtf"
      [] OTHER -> name

\* the sink calls of the twin entry point, for the input of the call
TwinCalls ==
    SelectSeq(Dispatch(maskers, Twin(call.op), call.sink, call.file, call.line, call.col,
                       call.format, call.args).ev,
              LAMBDA e : e.method # "Helper")

(***************************************************************************)
(* C22: the Warning and the Error entry points run the same chain, up to   *)
(* the name of the level.  For each call shape the method chosen is given  *)
(* by one table over the methods the sink has of the level of the call     *)
(* (plain: the plain method; f: f, plain; At: At, Atf, plain; Atf: Atf,    *)
(* At, f, plain), the same for both levels, so a sink with its Warning and *)
(* Error methods exchanged gets the corresponding method.  And whenever    *)
(* the sink has corresponding methods for the call at both levels, the     *)
(* Warning and the Error entry point of the same shape, given the same     *)
(* file, line, col, format and args, pass the same arguments.              *)
(***************************************************************************)
C22_WarningErrorSameChain ==
    (Dispatched /\ LevelOf(call.op) \in {"Warning", "Error"}) =>
        /\ Len(SinkCalls) = 1
        /\ SinkCalls[1].method = Chosen(call.sink, call.op)
        /\ Len(TwinCalls) = 1
        /\ TwinCalls[1].method = Chosen(call.sink, Twin(call.op))
        /\ TwinCalls[1].method = Twin(SinkCalls[1].method) =>
              TwinCalls[1] = [SinkCalls[1] EXCEPT !.method = Twin(@)]

C22_Witness ==
    /\ call.op = "WarningAt"
    /\ call.sink # NIL
    /\ caps[call.sink] = PlainMethods \cup AtfMethods
    /\ registered[call.sink] # <<>>
    /\ call.args = <<StrV(<<"a", "b">>), IntV(2)>>
    /\ Len(out) = 1
    /\ out[1].method = "WarningAtf"
    /\ TwinCalls = <<[out[1] EXCEPT !.method = "ErrorAtf"]>>

====
